---------------------------- MODULE Spec2Model ----------------------------
(***************************************************************************)
(* claunch URL handler (src/src/claunch/handler.py): the project-directory *)
(* decoder, the project resolver and the config store.                     *)
(*                                                                         *)
(* Strings are sequences of one-character strings, so that slicing,        *)
(* find, startswith, basename, the substring test and sorting are computed *)
(* as the Python code computes them.  A path is such a string, built with  *)
(* the code's own concatenations (prefix + "/" + component).               *)
(***************************************************************************)
EXTENDS Integers, Sequences, FiniteSets, TLC

VARIABLES
    dirs,       \* the directories that exist on disk (normalized absolute paths)
    encName,    \* decoder: the encoded name last handed to decode_project_dir
    target,     \* decoder: the directory whose encoding encName is, or <<>>
    results,    \* decoder: the list decode_project_dir returned
    dpc,        \* decoder: "idle" before a call, "decoded" after it, "off" in the handler's runs
    files,      \* the config directory: path -> [exists, data], data a sequence of chunks
    root,       \* ~/.claude/projects: [state, entries]
    inv,        \* the handler invocations (processes): number -> local state
    file0       \* the content of the config file before any invocation (history)

dvars == <<dirs, encName, target, results, dpc>>
hvars == <<files, root, inv, file0>>
vars == <<dirs, encName, target, results, dpc, files, root, inv, file0>>

----------------------------------------------------------------------------
(* Bounds *)

\* Longest directory path (characters, separators included) placed on disk.
MaxPathLen == 4
\* Longest encoded name handed to the decoder that is not the encoding of a
\* directory on disk.
MaxNameLen == 4
\* Number of handler invocations (processes).
NInv == 2

----------------------------------------------------------------------------
(* Python string primitives *)

\* s[i:] with a 0-based index
From(s, i) == IF i >= Len(s) THEN <<>> ELSE SubSeq(s, i + 1, Len(s))

\* s[:i] with a 0-based index
Upto(s, i) == IF i <= 0 THEN <<>> ELSE SubSeq(s, 1, IF i > Len(s) THEN Len(s) ELSE i)

\* s.find(ch, i): the 0-based position of the first ch at or after i, else -1
Find(s, ch, i) ==
    LET hits == {k \in (i + 1)..Len(s) : s[k] = ch}
    IN  IF hits = {} THEN -1
        ELSE (CHOOSE k \in hits : \A m \in hits : k <= m) - 1

\* s.startswith(p)
StartsWith(s, p) == Len(s) >= Len(p) /\ SubSeq(s, 1, Len(p)) = p

----------------------------------------------------------------------------
(* The filesystem oracle *)

\* The components of a path: the text between its separators.
RECURSIVE SplitPath(_)
SplitPath(p) ==
    LET k == Find(p, "/", 0)
    IN  IF k = -1 THEN <<p>> ELSE <<Upto(p, k)>> \o SplitPath(From(p, k + 1))

\* Walk the components of an absolute path from the root, as the kernel
\* resolves it: "" and "." stay, ".." goes up, a name must be a directory.
\* cur is the normalized path reached so far (<<>> is the root).
RECURSIVE Walk(_, _)
Walk(cur, comps) ==
    IF comps = <<>> THEN TRUE
    ELSE LET c == Head(comps)
         IN  IF c = <<>> \/ c = <<".">> THEN Walk(cur, Tail(comps))
             ELSE IF c = <<".", ".">>
                  THEN LET ks == {k \in 1..Len(cur) : cur[k] = "/"}
                           last == CHOOSE k \in ks : \A m \in ks : m <= k
                       IN  Walk(IF cur = <<>> THEN <<>> ELSE Upto(cur, last - 1),
                                Tail(comps))
                  ELSE (cur \o <<"/">> \o c) \in dirs
                       /\ Walk(cur \o <<"/">> \o c, Tail(comps))

\* os.path.isdir(path), for the paths the handler builds (all absolute)
IsDir(path) ==
    /\ path # <<>>
    /\ Head(path) = "/"
    /\ Walk(<<>>, SplitPath(Tail(path)))

----------------------------------------------------------------------------
(* decode_project_dir *)

RECURSIVE DecodeRec(_, _)
RECURSIVE ScanFrom(_, _, _)
RECURSIVE DotScan(_, _, _)

\* The inner while loop of the dot-prefix case (j, next_dash2).
DotScan(prefix, rest, j) ==
    IF j >= Len(rest) THEN <<>>
    ELSE LET next_dash2 == Find(rest, "-", j)
         IN  IF next_dash2 = -1
             THEN LET candidate == prefix \o <<"/", ".">> \o rest
                  IN  IF IsDir(candidate) THEN <<candidate>> ELSE <<>>
             ELSE LET component == <<".">> \o Upto(rest, next_dash2)
                      new_prefix == prefix \o <<"/">> \o component
                  IN  (IF IsDir(new_prefix)
                       THEN DecodeRec(new_prefix, From(rest, next_dash2 + 1))
                       ELSE <<>>)
                      \o DotScan(prefix, rest, next_dash2 + 1)

\* The branch dash_pos == 0: a leading dash announces a dot-prefixed component.
DotCase(prefix, remainder) ==
    LET rest == IF StartsWith(remainder, <<"-", "-">>)
                THEN From(remainder, 2) ELSE From(remainder, 1)
    IN  IF rest = <<>> THEN <<>>
        ELSE LET next_dash == Find(rest, "-", 0)
             IN  IF next_dash = -1
                 THEN LET candidate == prefix \o <<"/", ".">> \o rest
                      IN  IF IsDir(candidate) THEN <<candidate>> ELSE <<>>
                 ELSE LET component == <<".">> \o Upto(rest, next_dash)
                          new_prefix == prefix \o <<"/">> \o component
                      IN  (IF IsDir(new_prefix)
                           THEN DecodeRec(new_prefix, From(rest, next_dash + 1))
                           ELSE <<>>)
                          \o DotScan(prefix, rest, next_dash + 1)

\* Option A of a dash at dash_pos > 0: the dash is a path separator.
SplitAt(prefix, remainder, dash_pos) ==
    LET component  == Upto(remainder, dash_pos)
        new_prefix == prefix \o <<"/">> \o component
    IN  IF IsDir(new_prefix)
        THEN DecodeRec(new_prefix, From(remainder, dash_pos + 1))
        ELSE <<>>

\* Mutant of ScanFrom: the scan stops at the first dash whose split validated.
RECURSIVE ScanFromPruned(_, _, _)
ScanFromPruned(prefix, remainder, i) ==
    IF i >= Len(remainder) THEN <<>>
    ELSE LET dash_pos == Find(remainder, "-", i)
         IN  IF dash_pos = -1
             THEN LET candidate == prefix \o <<"/">> \o remainder
                  IN  IF IsDir(candidate) THEN <<candidate>> ELSE <<>>
             ELSE IF dash_pos = 0
                  THEN DotCase(prefix, remainder)
                  ELSE IF SplitAt(prefix, remainder, dash_pos) # <<>>
                       THEN SplitAt(prefix, remainder, dash_pos)
                       ELSE ScanFromPruned(prefix, remainder, dash_pos + 1)

\* The outer while loop (i, dash_pos): the results appended from position i on.
ScanFrom(prefix, remainder, i) ==
    IF i >= Len(remainder) THEN <<>>
    ELSE LET dash_pos == Find(remainder, "-", i)
         IN  IF dash_pos = -1
             THEN LET candidate == prefix \o <<"/">> \o remainder
                  IN  IF IsDir(candidate) THEN <<candidate>> ELSE <<>>
             ELSE IF dash_pos = 0
                  THEN DotCase(prefix, remainder)
                  ELSE SplitAt(prefix, remainder, dash_pos)
                       \o ScanFrom(prefix, remainder, dash_pos + 1)

\* _decode_project_dir_recursive: what one call appends to results
DecodeRec(prefix, remainder) ==
    IF remainder = <<>>
    THEN IF IsDir(prefix) THEN <<prefix>> ELSE <<>>
    ELSE ScanFrom(prefix, remainder, 0)

\* decode_project_dir(name)
DecodeProjectDir(name) ==
    LET stripped == IF StartsWith(name, <<"-">>) THEN From(name, 1) ELSE name
    IN  IF stripped = <<>> THEN <<>> ELSE DecodeRec(<<>>, stripped)

----------------------------------------------------------------------------
(* The encoding the decoder inverts, and the inputs of the decoder *)

\* The characters of a directory name on disk
CompChars == {"a", "-", "."}

\* The encoded name of an absolute path: every "/" and every
\* component-leading "." becomes "-"; every other character stays.
Encode(path) ==
    [k \in 1..Len(path) |->
        IF path[k] = "/" THEN "-"
        ELSE IF path[k] = "." /\ path[k - 1] = "/" THEN "-"
        ELSE path[k]]

\* A normalized absolute path: "/" then a name, repeated; no name is empty,
\* "." or "..".
WellFormedPath(p) ==
    /\ p # <<>>
    /\ Head(p) = "/"
    /\ \A c \in {SplitPath(Tail(p))[k] : k \in 1..Len(SplitPath(Tail(p)))} :
          c \notin {<<>>, <<".">>, <<".", ".">>}

Universe ==
    UNION {{p \in [1..n -> CompChars \cup {"/"}] : WellFormedPath(p)} : n \in 2..MaxPathLen}

\* A directory exists together with all its ancestors.
Ancestors(p) == {Upto(p, k - 1) : k \in {j \in 2..Len(p) : p[j] = "/"}}
Closure(leaves) == leaves \cup UNION {Ancestors(p) : p \in leaves}

\* Encoded names that need not be the encoding of anything on disk
Names == UNION {[1..n -> CompChars] : n \in 1..MaxNameLen}

----------------------------------------------------------------------------
(* More string primitives: basename, the substring test, sorted() *)

\* os.path.basename(p): the text after the last "/"
Basename(p) ==
    LET ks == {k \in 1..Len(p) : p[k] = "/"}
    IN  IF ks = {} THEN p
        ELSE From(p, CHOOSE k \in ks : \A m \in ks : m <= k)

\* needle in hay
Contains(hay, needle) ==
    \E k \in 0..(Len(hay) - Len(needle)) :
        SubSeq(hay, k + 1, k + Len(needle)) = needle

\* ord(c) of the characters in use
Ord(c) ==
    CASE c = "-" -> 45 [] c = "." -> 46 [] c = "/" -> 47
      [] c = "a" -> 97 [] c = "b" -> 98 [] c = "c" -> 99 [] c = "g" -> 103
      [] c = "o" -> 111

\* s < t on str
StrLess(s, t) ==
    \/ \E k \in 1..Len(s) :
          /\ k <= Len(t)
          /\ SubSeq(s, 1, k - 1) = SubSeq(t, 1, k - 1)
          /\ Ord(s[k]) < Ord(t[k])
    \/ Len(s) < Len(t) /\ SubSeq(t, 1, Len(s)) = s

RECURSIVE Insert(_, _)
Insert(x, l) ==
    IF l = <<>> THEN <<x>>
    ELSE IF StrLess(Head(l), x) \/ Head(l) = x THEN <<Head(l)>> \o Insert(x, Tail(l))
    ELSE <<x>> \o l

\* sorted(l)
RECURSIVE Sorted(_)
Sorted(l) == IF l = <<>> THEN <<>> ELSE Insert(Head(l), Sorted(Tail(l)))

Range(l) == {l[k] : k \in 1..Len(l)}

----------------------------------------------------------------------------
(* JSON documents and the files of the config directory *)

NoKey == "<absent>"         \* dict.get(key) is None
ListValue == "<list>"       \* a JSON array where a string is expected
VALID_TERMINALS == {"ghostty", "iterm", "terminal"}
EmptyMap == [k \in {} |-> <<>>]

\* A parsed JSON document: an object with its "terminal" and "projects" keys,
\* or something that is not an object.  pkind tells what "projects" holds.
Obj(t, pk, pm) == [kind |-> "object", terminal |-> t, pkind |-> pk, pmap |-> pm]
ArrayDoc == [kind |-> "array", terminal |-> NoKey, pkind |-> "absent", pmap |-> EmptyMap]
None == [kind |-> "none", terminal |-> NoKey, pkind |-> "absent", pmap |-> EmptyMap]

\* A file is a sequence of chunks in the order they were written: the JSON
\* text of a document in two parts, then the newline.
Chunk(doc, part) == [doc |-> doc, part |-> part]
Newline == Chunk(None, 3)
Garbage == Chunk(None, 0)

\* json.dump(config, f, indent=2): the writes it makes
JsonDump(config) == <<Chunk(config, 1), Chunk(config, 2)>>

\* json.load(f): the document, or JSONDecodeError
JsonLoad(data) ==
    IF /\ Len(data) >= 2
       /\ data[1].part = 1 /\ data[2].part = 2 /\ data[1].doc = data[2].doc
       /\ \A k \in 3..Len(data) : data[k] = Newline
    THEN [ok |-> TRUE, doc |-> data[1].doc]
    ELSE [ok |-> FALSE, doc |-> None]

NoFile == [exists |-> FALSE, data |-> <<>>]
File(data) == [exists |-> TRUE, data |-> data]

CONFIG_PATH == <<"config.json", 0>>
\* Mutant of Mkstemp: one fixed temporary name for every call
MkstempFixedName(p) == <<"tmp", 1>>

\* tempfile.mkstemp(dir=config_dir, suffix=".json"): a name no other call got
Mkstemp(p) == <<"tmp", p>>

Inv == 1..NInv
Paths == {CONFIG_PATH} \cup {Mkstemp(p) : p \in Inv}

\* load_config, given what CONFIG_PATH holds: the config (None if missing or
\* invalid), or the exception it lets escape
LoadConfig(f) ==
    IF ~f.exists THEN [raised |-> "", config |-> None]
    ELSE LET r == JsonLoad(f.data)
             config == r.doc
         IN  IF ~r.ok THEN [raised |-> "", config |-> None]
             ELSE IF config.kind # "object" THEN [raised |-> "", config |-> None]
             ELSE IF config.terminal = ListValue
                  \* terminal not in VALID_TERMINALS hashes terminal
                  THEN [raised |-> "TypeError", config |-> None]
             ELSE IF config.terminal # NoKey /\ config.terminal \notin VALID_TERMINALS
                  THEN [raised |-> "", config |-> None]
             ELSE IF config.pkind \notin {"absent", "dict"}
                  THEN [raised |-> "", config |-> None]
             ELSE [raised |-> "", config |-> config]

\* (config or {}).get("projects") or {}
ProjectsOf(config) ==
    IF config.kind = "object" /\ config.pkind = "dict" THEN config.pmap ELSE EmptyMap

\* Mutant of UpdatedConfig: the new entry is not put into projects
UpdatedConfigNoEntry(config, project_name, directory) ==
    Obj(config.terminal, "dict", ProjectsOf(config))

\* save_project_mapping, lines 190-193: the config it writes and returns
UpdatedConfig(config, project_name, directory) ==
    LET projects == ProjectsOf(config)
    IN  Obj(config.terminal, "dict",
            [k \in DOMAIN projects \cup {project_name} |->
                IF k = project_name THEN directory ELSE projects[k]])

----------------------------------------------------------------------------
(* discover_claude_projects and the candidate selection *)

\* The keys of discovered after the loop over paths: a new key goes last, a
\* key already there keeps its place.
RECURSIVE AddPaths(_, _)
AddPaths(discovered, paths) ==
    IF paths = <<>> THEN discovered
    ELSE AddPaths(IF Head(paths) \in Range(discovered) THEN discovered
                  ELSE Append(discovered, Head(paths)),
                  Tail(paths))

\* The loop over entries, in the order os.listdir gave them
RECURSIVE ScanEntries(_, _)
ScanEntries(discovered, listing) ==
    IF listing = <<>> THEN discovered
    ELSE LET entry == Head(listing)
         IN  ScanEntries(IF ~entry.isdir THEN discovered
                         ELSE AddPaths(discovered, DecodeProjectDir(entry.name)),
                         Tail(listing))

\* discover_claude_projects: the keys of the dict it returns, in dict order
DiscoverClaudeProjects(r, listing) ==
    IF r.state # "ok" THEN <<>> ELSE ScanEntries(<<>>, listing)

\* The orders in which os.listdir may give a set of entries
Listings(entries) ==
    {l \in [1..Cardinality(entries) -> entries] :
        \A i, j \in 1..Cardinality(entries) : i # j => l[i] # l[j]}

\* resolve_unknown_project, lines 230-238 and 244
\* exact = [p for p in discovered if os.path.basename(p) == project_name]
RECURSIVE ExactMatches(_, _)
ExactMatches(discovered, project_name) ==
    IF discovered = <<>> THEN <<>>
    ELSE (IF Basename(Head(discovered)) = project_name
          THEN <<Head(discovered)>> ELSE <<>>)
         \o ExactMatches(Tail(discovered), project_name)

\* partial = [p for p in discovered if project_name in os.path.basename(p)]
RECURSIVE PartialMatches(_, _)
PartialMatches(discovered, project_name) ==
    IF discovered = <<>> THEN <<>>
    ELSE (IF Contains(Basename(Head(discovered)), project_name)
          THEN <<Head(discovered)>> ELSE <<>>)
         \o PartialMatches(Tail(discovered), project_name)

\* Mutant of Candidates: the list goes to the picker in dict order
CandidatesUnsorted(discovered, project_name) ==
    LET exact == ExactMatches(discovered, project_name)
        partial == PartialMatches(discovered, project_name)
    IN  IF exact # <<>> THEN exact
        ELSE IF partial # <<>> THEN partial
        ELSE discovered

Candidates(discovered, project_name) ==
    LET exact == ExactMatches(discovered, project_name)
        partial == PartialMatches(discovered, project_name)
    IN  Sorted(IF exact # <<>> THEN exact
               ELSE IF partial # <<>> THEN partial
               ELSE Sorted(discovered))

\* Mutant of ShowProjectPicker: the exit status is not looked at
ShowProjectPickerAnyStatus(o) ==
    IF o.timeout THEN <<>> ELSE o.stdout

\* show_project_picker, lines 176-185: from what osascript did to the return
ShowProjectPicker(o) ==
    IF o.timeout THEN <<>>
    ELSE IF o.returncode # 0 \/ o.stdout = <<>> THEN <<>>
    ELSE o.stdout

\* What osascript can do when shown the candidates
PickerOutcomes(candidates) ==
    {[timeout |-> TRUE, returncode |-> 0, stdout |-> <<>>]}
    \cup {[timeout |-> FALSE, returncode |-> rc, stdout |-> out] :
            rc \in {0, 1}, out \in {<<>>} \cup Range(candidates)}

----------------------------------------------------------------------------
(* The handler's inputs *)

\* The directories on disk during the handler's runs
HandlerDirs ==
    Closure({<<"/", "a", "/", "b">>, <<"/", "a", "-", "b">>,
             <<"/", "a", "/", "a", "b">>, <<"/", "b">>})

\* What ~/.claude/projects may hold: encoded directories, and a plain file
EntryPool ==
    {[name |-> <<"-", "a", "-", "b">>, isdir |-> TRUE],
     [name |-> <<"-", "b">>, isdir |-> TRUE],
     [name |-> <<"-", "a", "-", "a", "b">>, isdir |-> TRUE],
     [name |-> <<"-", "c">>, isdir |-> FALSE]}

Roots ==
    {[state |-> st, entries |-> {}] : st \in {"missing", "unlistable"}}
    \cup {[state |-> "ok", entries |-> es] : es \in SUBSET EntryPool}

\* The projects root of the concurrent runs: one entry, with two decodings
ConcRoot == [state |-> "ok", entries |-> {[name |-> <<"-", "a", "-", "b">>, isdir |-> TRUE]}]

\* The config file before the concurrent runs: absent, or one mapping
ConcFiles ==
    {NoFile,
     File(JsonDump(Obj("ghostty", "dict", [k \in {<<"b">>} |-> <<"/", "a", "/", "b">>]))
          \o <<Newline>>)}

\* The project names a URL may ask for
ProjNames == {<<"b">>, <<"a", "b">>, <<"c">>}

GoodUrl(project) ==
    [scheme |-> "claunch", host |-> "open", prompt |-> "ok", v |-> "1",
     project |-> project]

\* The URLs handed to the handler; project <<>> is a missing or blank one
Urls ==
    {GoodUrl(pr) : pr \in ProjNames \cup {<<>>}}
    \cup {[GoodUrl(<<"b">>) EXCEPT !.scheme = "http"],
          [GoodUrl(<<"b">>) EXCEPT !.host = "other"],
          [GoodUrl(<<"b">>) EXCEPT !.prompt = "blank"],
          [GoodUrl(<<"b">>) EXCEPT !.v = "missing"],
          [GoodUrl(<<"b">>) EXCEPT !.v = "x"],
          [GoodUrl(<<"b">>) EXCEPT !.v = "2"]}

\* The URLs of the concurrent runs
ConcUrls ==
    {GoodUrl(pr) : pr \in ProjNames \cup {<<>>}}
    \cup {[GoodUrl(<<"b">>) EXCEPT !.v = "2"]}

\* What the config file may hold before the first invocation
InitialMaps ==
    {EmptyMap,
     [k \in {<<"b">>} |-> <<"/", "a", "/", "b">>],
     [k \in {<<"b">>} |-> <<>>],
     [k \in {<<"c">>} |-> <<"/", "g", "o">>]}

InitialDocs ==
    {ArrayDoc, Obj(NoKey, "absent", EmptyMap), Obj("ghostty", "other", EmptyMap)}
    \cup {Obj(t, "dict", m) : t \in {NoKey, "ghostty", "kitty", ListValue},
                              m \in InitialMaps}

InitialFiles ==
    {NoFile, File(<<Garbage>>), File(<<Chunk(Obj("ghostty", "dict", EmptyMap), 1)>>)}
    \cup {File(JsonDump(d) \o <<Newline>>) : d \in InitialDocs}

----------------------------------------------------------------------------
(* One handler invocation: main() *)

IdleInv ==
    [pc |-> "idle", url |-> GoodUrl(<<>>), config |-> None, given |-> None,
     candidates |-> <<>>,
     directory |-> <<>>, outcome |-> "", newcfg |-> None, w |-> 0,
     failedAt |-> "", err |-> "", scans |-> 0, picks |-> 0, saves |-> 0,
     fileAtStart |-> NoFile, fileAtSave |-> NoFile]

Done(p) == inv[p].pc \in {"launched", "exit1", "crashed"}

\* parse_url, lines 258-282: the ValueError of a malformed URL, "" if none
UrlError(url) ==
    IF url.scheme # "claunch" THEN "unexpected scheme"
    ELSE IF url.host # "open" THEN "unexpected host"
    ELSE IF url.prompt # "ok" THEN "missing or empty 'prompt' parameter"
    ELSE IF url.v = "missing" THEN "missing required 'v' parameter"
    ELSE IF url.v = "x" THEN "invalid 'v' parameter"
    ELSE IF url.v # "1" THEN "unsupported version"
    ELSE ""

\* parse_url, lines 295-298: the last existence check and the return
CheckAndReturn(st, directory, config) ==
    IF directory # <<>> /\ ~IsDir(directory)
    THEN [st EXCEPT !.pc = "exit1", !.err = "directory does not exist",
                    !.directory = directory]
    ELSE [st EXCEPT !.pc = "launched", !.directory = directory,
                    !.config = config]

\* Mutant of InProjects: the name is looked up among the config's own keys
InProjectsTopLevel(project, config) ==
    config.kind = "object" /\ project \in {<<"terminal">>, <<"projects">>}

\* The test of line 290: the project is a key of the config's projects
InProjects(project, config) == project \in DOMAIN ProjectsOf(config)

\* resolve_unknown_project up to the picker, given the order of the listing
ResolveUnknown(st, listing) ==
    LET project == st.url.project
        discovered == DiscoverClaudeProjects(root, listing)
        exact == ExactMatches(discovered, project)
        scanned == [st EXCEPT !.scans = @ + 1]
    IN  IF discovered = <<>>
        THEN [scanned EXCEPT !.pc = "exit1", !.err = "unknown project"]
        ELSE IF Len(exact) = 1
        THEN [scanned EXCEPT !.pc = "saving", !.directory = exact[1]]
        ELSE [scanned EXCEPT !.pc = "picking", !.picks = @ + 1,
                             !.candidates = Candidates(discovered, project)]

\* main, lines 401-403: no URL argument
Usage(p) ==
    /\ inv[p].pc = "idle"
    /\ inv' = [inv EXCEPT ![p] = [@ EXCEPT !.pc = "exit1", !.err = "usage",
                                            !.fileAtStart = files[CONFIG_PATH]]]
    /\ UNCHANGED <<files, root, file0, dvars>>

\* main, lines 405-406: config = load_config(), the URL being one of urls
LoadFrom(p, urls) ==
    /\ inv[p].pc = "idle"
    /\ \E url \in urls :
          LET r == LoadConfig(files[CONFIG_PATH])
          IN  inv' = [inv EXCEPT ![p] =
                        [@ EXCEPT !.pc = IF r.raised # "" THEN "crashed" ELSE "loaded",
                                  !.err = r.raised,
                                  !.url = url,
                                  !.config = r.config,
                                  !.given = r.config,
                                  !.fileAtStart = files[CONFIG_PATH]]]
    /\ UNCHANGED <<files, root, file0, dvars>>

Load(p) == LoadFrom(p, Urls)

\* main, lines 408-412: parse_url(url, config), up to the picker or the save
ParseUrl(p) ==
    /\ inv[p].pc = "loaded"
    /\ LET st == inv[p]
           project == st.url.project
       IN  IF UrlError(st.url) # ""
           THEN inv' = [inv EXCEPT ![p] =
                          [st EXCEPT !.pc = "exit1", !.err = UrlError(st.url)]]
           ELSE IF project = <<>>
           THEN inv' = [inv EXCEPT ![p] = CheckAndReturn(st, <<>>, st.config)]
           ELSE IF InProjects(project, st.config)
           THEN inv' = [inv EXCEPT ![p] =
                          CheckAndReturn(st, ProjectsOf(st.config)[project], st.config)]
           ELSE \E listing \in Listings(root.entries) :
                   inv' = [inv EXCEPT ![p] = ResolveUnknown(st, listing)]
    /\ UNCHANGED <<files, root, file0, dvars>>

\* resolve_unknown_project, lines 245-247: the picker returns
Pick(p) ==
    /\ inv[p].pc = "picking"
    /\ \E o \in PickerOutcomes(inv[p].candidates) :
          LET directory == ShowProjectPicker(o)
              kind == IF o.timeout THEN "timeout"
                      ELSE IF o.returncode # 0 THEN "failed"
                      ELSE IF o.stdout = <<>> THEN "cancel" ELSE "chosen"
          IN  inv' = [inv EXCEPT ![p] =
                        IF directory = <<>>
                        THEN [@ EXCEPT !.pc = "exit1",
                                       !.outcome = kind,
                                       !.err = "project selection cancelled"]
                        ELSE [@ EXCEPT !.pc = "saving",
                                       !.outcome = kind,
                                       !.directory = directory]]
    /\ UNCHANGED <<files, root, file0, dvars>>

\* os.unlink(path)
Unlink(fs, path) == [fs EXCEPT ![path] = NoFile]

\* os.replace(src, dst)
OsReplace(fs, src, dst) == [fs EXCEPT ![dst] = fs[src], ![src] = NoFile]

\* f.write(chunk) on the open temporary file
WriteTo(fs, path, chunk) == [fs EXCEPT ![path] = File(fs[path].data \o <<chunk>>)]

\* save_project_mapping, lines 190-199: the new config, makedirs, mkstemp
SaveBegin(p) ==
    /\ inv[p].pc = "saving"
    /\ inv' = [inv EXCEPT ![p] =
                 [@ EXCEPT !.pc = "writing", !.saves = @ + 1, !.w = 0,
                           !.newcfg = UpdatedConfig(inv[p].config, inv[p].url.project,
                                                    inv[p].directory),
                           !.fileAtSave = files[CONFIG_PATH]]]
    /\ files' = [files EXCEPT ![Mkstemp(p)] = File(<<>>)]
    /\ UNCHANGED <<root, file0, dvars>>

\* save_project_mapping: os.makedirs or tempfile.mkstemp raises OSError
SaveBeginFail(p) ==
    /\ inv[p].pc = "saving"
    /\ inv' = [inv EXCEPT ![p] =
                 [@ EXCEPT !.pc = "crashed", !.saves = @ + 1, !.err = "OSError",
                           !.failedAt = "mkstemp",
                           !.fileAtSave = files[CONFIG_PATH]]]
    /\ UNCHANGED <<files, root, file0, dvars>>

\* save_project_mapping, lines 201-203: one more write reaches the file
WriteChunk(p) ==
    /\ inv[p].pc = "writing"
    /\ inv[p].w < 3
    /\ files' = WriteTo(files, Mkstemp(p),
                        (JsonDump(inv[p].newcfg) \o <<Newline>>)[inv[p].w + 1])
    /\ inv' = [inv EXCEPT ![p] = [@ EXCEPT !.w = @ + 1]]
    /\ UNCHANGED <<root, file0, dvars>>

\* Mutant of Cleanup: the exception is re-raised, the file is left behind
CleanupNoUnlink(fs, p) == fs

\* save_project_mapping, lines 205-210: the except clause unlinks the
\* temporary file and re-raises; main catches ValueError only, so the error
\* ends the process
Cleanup(fs, p) == Unlink(fs, Mkstemp(p))


\* save_project_mapping, lines 201-203 and 205-210: a write, or the close,
\* raises after w chunks reached the file
WriteFail(p) ==
    /\ inv[p].pc = "writing"
    /\ files' = Cleanup(files, p)
    /\ inv' = [inv EXCEPT ![p] = [@ EXCEPT !.pc = "crashed", !.err = "OSError",
                                            !.failedAt = "write", !.w = 0]]
    /\ UNCHANGED <<root, file0, dvars>>

\* save_project_mapping, line 204: os.replace(tmp_path, CONFIG_PATH)
Replace(p) ==
    /\ inv[p].pc = "writing"
    /\ inv[p].w = 3
    /\ files' = OsReplace(files, Mkstemp(p), CONFIG_PATH)
    /\ inv' = [inv EXCEPT ![p] = [@ EXCEPT !.pc = "saved", !.w = 0]]
    /\ UNCHANGED <<root, file0, dvars>>

\* save_project_mapping, lines 204-210: os.replace raises
ReplaceFail(p) ==
    /\ inv[p].pc = "writing"
    /\ inv[p].w = 3
    /\ files' = Cleanup(files, p)
    /\ inv' = [inv EXCEPT ![p] = [@ EXCEPT !.pc = "crashed", !.err = "OSError",
                                            !.failedAt = "replace", !.w = 0]]
    /\ UNCHANGED <<root, file0, dvars>>

\* save_project_mapping returns, resolve_unknown_project returns
\* (directory, config), parse_url checks the directory and returns
Finish(p) ==
    /\ inv[p].pc = "saved"
    /\ inv' = [inv EXCEPT ![p] = CheckAndReturn(@, @.directory, @.newcfg)]
    /\ UNCHANGED <<files, root, file0, dvars>>

\* The process ends; the next invocation is a new process
Exit(p) ==
    /\ Done(p)
    /\ inv' = [inv EXCEPT ![p] = IdleInv]
    /\ UNCHANGED <<files, root, file0, dvars>>

HInit ==
    /\ dirs = HandlerDirs
    /\ encName = <<>>
    /\ target = <<>>
    /\ results = <<>>
    /\ dpc = "off"
    /\ file0 \in InitialFiles
    /\ files = [path \in Paths |-> IF path = CONFIG_PATH THEN file0 ELSE NoFile]
    /\ root \in Roots
    /\ inv = [p \in Inv |-> IdleInv]

\* One invocation at a time: the next starts when the one before has exited.
Turn(p) == p = 1

Step(p) ==
    \/ ParseUrl(p)
    \/ Pick(p)
    \/ SaveBegin(p)
    \/ SaveBeginFail(p)
    \/ WriteChunk(p)
    \/ WriteFail(p)
    \/ Replace(p)
    \/ ReplaceFail(p)
    \/ Finish(p)

Next ==
    \E p \in Inv :
        \/ Turn(p) /\ Usage(p)
        \/ Turn(p) /\ Load(p)
        \/ Step(p)
        \/ Exit(p)

\* Invocations one after the other
Spec == HInit /\ [][Next]_vars

NextConc ==
    \E p \in Inv :
        \/ Usage(p)
        \/ LoadFrom(p, ConcUrls)
        \/ Step(p)

CInit ==
    /\ HInit
    /\ root = ConcRoot
    /\ file0 \in ConcFiles

\* NInv invocations running concurrently, their steps interleaved
SpecConc == CInit /\ [][NextConc]_vars

----------------------------------------------------------------------------
(* The decoder on its own: one call on one filesystem *)

DInit ==
    /\ files = [path \in Paths |-> NoFile]
    /\ file0 = NoFile
    /\ root = [state |-> "missing", entries |-> {}]
    /\ inv = [p \in Inv |-> IdleInv]
    /\ dirs \in {Closure({p, q}) : p \in Universe, q \in Universe} \cup {{}}
    /\ encName = <<>>
    /\ target = <<>>
    /\ results = <<>>
    /\ dpc = "idle"

\* decode_project_dir on the name under which a directory on disk is stored
DecodeEntry ==
    /\ dpc = "idle"
    /\ \E P \in dirs :
          /\ target' = P
          /\ encName' = Encode(P)
          /\ results' = DecodeProjectDir(Encode(P))
    /\ dpc' = "decoded"
    /\ UNCHANGED <<dirs, hvars>>

\* decode_project_dir on any name found in the projects root
DecodeName ==
    /\ dpc = "idle"
    /\ \E n \in Names :
          /\ target' = <<>>
          /\ encName' = n
          /\ results' = DecodeProjectDir(n)
    /\ dpc' = "decoded"
    /\ UNCHANGED <<dirs, hvars>>

DNext == DecodeEntry \/ DecodeName

SpecDecode == DInit /\ [][DNext]_vars

----------------------------------------------------------------------------
(* Claims about the decoder (SpecDecode) *)

\* C1 (decoder round-trip): after decode_project_dir ran on the encoding of a
\* directory that exists on disk, that directory is among the results.
C1_RoundTrip ==
    (dpc = "decoded" /\ target # <<>>) => target \in Range(results)

\* The name without its one leading dash
Stripped(name) == IF StartsWith(name, <<"-">>) THEN From(name, 1) ELSE name

\* A name made of non-empty dash-separated tokens without dots
TokenName(name) ==
    LET s == Stripped(name)
    IN  /\ s # <<>>
        /\ "." \notin Range(s)
        /\ s[1] # "-" /\ s[Len(s)] # "-"
        /\ \A k \in 1..(Len(s) - 1) : ~(s[k] = "-" /\ s[k + 1] = "-")

\* The texts obtained from s by turning any subset of its dashes into "/"
RECURSIVE Readings(_)
Readings(s) ==
    IF s = <<>> THEN {<<>>}
    ELSE {<<c>> \o r : c \in (IF Head(s) = "-" THEN {"-", "/"} ELSE {Head(s)}),
                       r \in Readings(Tail(s))}

\* C2 (decoder completeness): for a name of dash-separated tokens, the results
\* are exactly the existing directories among the readings of the name, each
\* listed once; none is pruned, and the result is empty when none exists.
C2_Complete ==
    (dpc = "decoded" /\ TokenName(encName)) =>
        /\ Range(results) =
              {p \in {<<"/">> \o r : r \in Readings(Stripped(encName))} : p \in dirs}
        /\ Len(results) = Cardinality(Range(results))

\* Two segmentations of one name exist on disk and both are returned.
C2_Witness ==
    /\ dpc = "decoded"
    /\ TokenName(encName)
    /\ Cardinality(Range(results)) >= 2

\* C11 (decoder soundness): after decode_project_dir ran on a name that begins
\* with a dash, every returned path is an existing directory and its
\* re-encoding is the name, dash for dash. Stated for names without dots, so
\* that no returned component is "." or "..".
C11_Sound ==
    (dpc = "decoded" /\ StartsWith(encName, <<"-">>) /\ "." \notin Range(encName)) =>
        \A k \in 1..Len(results) :
            /\ IsDir(results[k])
            /\ Encode(results[k]) = encName

----------------------------------------------------------------------------
(* Claims about the resolver and the config store (Spec, SpecConc) *)

Project(p) == inv[p].url.project

\* The requested project is a key of the projects of the loaded config.
FastPathCase(p) ==
    /\ inv[p].pc \notin {"idle", "loaded"}
    /\ inv[p].err # "usage"
    /\ UrlError(inv[p].url) = ""
    /\ Project(p) # <<>>
    /\ inv[p].given.kind = "object"
    /\ inv[p].given.pkind = "dict"
    /\ Project(p) \in DOMAIN inv[p].given.pmap

\* C3 (resolver fast path): when the project is a key of config.projects,
\* parse_url returns or fails without a scan of the projects root, without
\* the picker and without a save; the directory is the mapped one, the config
\* returned is the one given, and the config file is as it was.
C3_FastPath ==
    \A p \in Inv :
        FastPathCase(p) =>
            /\ inv[p].pc \in {"launched", "exit1"}
            /\ inv[p].scans = 0 /\ inv[p].picks = 0 /\ inv[p].saves = 0
            /\ inv[p].directory = inv[p].given.pmap[Project(p)]
            /\ inv[p].config = inv[p].given
            /\ files[CONFIG_PATH] = inv[p].fileAtStart

C3_Witness ==
    \E p \in Inv : FastPathCase(p) /\ inv[p].pc = "launched" /\ inv[p].directory # <<>>

\* The set of discovered paths, whatever the order of the listing
DiscoveredSet ==
    IF root.state # "ok" THEN {}
    ELSE UNION {Range(DecodeProjectDir(e.name)) : e \in {x \in root.entries : x.isdir}}

ExactSet(name) == {x \in DiscoveredSet : Basename(x) = name}
PartialSet(name) == {x \in DiscoveredSet : Contains(Basename(x), name)}

\* The narrowest non-empty tier
Tier(name) ==
    IF ExactSet(name) # {} THEN ExactSet(name)
    ELSE IF PartialSet(name) # {} THEN PartialSet(name)
    ELSE DiscoveredSet

\* The elements of a set of strings in increasing order
SortedSeqOf(S) ==
    CHOOSE l \in [1..Cardinality(S) -> S] :
        \A i, j \in 1..Cardinality(S) : i < j => StrLess(l[i], l[j])

\* resolve_unknown_project ran and found something
Resolving(p) == inv[p].scans = 1 /\ DiscoveredSet # {}

\* C4 (candidate selection): with exactly one exact basename match that path
\* is selected and the picker is not invoked; otherwise the picker is invoked
\* exactly once, with the sorted list of the narrowest non-empty tier.
C4_Selection ==
    \A p \in Inv :
        Resolving(p) =>
            IF Cardinality(ExactSet(Project(p))) = 1
            THEN /\ inv[p].picks = 0
                 /\ inv[p].candidates = <<>>
                 /\ inv[p].directory \in ExactSet(Project(p))
            ELSE /\ inv[p].picks = 1
                 /\ inv[p].candidates = SortedSeqOf(Tier(Project(p)))

\* One exact match beside partial ones: selected without the picker.
C4_Witness ==
    \E p \in Inv :
        /\ Resolving(p)
        /\ Cardinality(ExactSet(Project(p))) = 1
        /\ Cardinality(PartialSet(Project(p))) >= 2
        /\ inv[p].pc = "saving"

\* save_project_mapping returned to resolve_unknown_project
Saved(p) ==
    /\ inv[p].saves = 1
    /\ inv[p].failedAt = ""
    /\ inv[p].pc \in {"saved", "launched", "exit1"}

\* C5 (resolver persistence): after a successful resolution of project n to
\* directory d, load_config returns a config that maps n to d and equals the
\* config the call returned.
C5_Persisted ==
    \A p \in Inv :
        Saved(p) =>
            LET r == LoadConfig(files[CONFIG_PATH])
            IN  /\ r.raised = ""
                /\ r.config = inv[p].newcfg
                /\ Project(p) \in DOMAIN ProjectsOf(r.config)
                /\ ProjectsOf(r.config)[Project(p)] = inv[p].directory

\* A resolution through the picker has been saved.
C5_Witness ==
    \E p \in Inv : Saved(p) /\ inv[p].picks = 1 /\ inv[p].pc = "saved"

\* C6 (cancellation): when the picker yields no selection (timeout, non-zero
\* exit, empty output), the resolution fails with the selection-cancelled
\* error, save_project_mapping is not called, no temporary file exists and
\* the config file is what it was before the call.
C6_Cancelled ==
    \A p \in Inv :
        inv[p].outcome \in {"timeout", "failed", "cancel"} =>
            /\ inv[p].pc = "exit1"
            /\ inv[p].err = "project selection cancelled"
            /\ inv[p].saves = 0
            /\ ~files[Mkstemp(p)].exists
            /\ files[CONFIG_PATH] = inv[p].fileAtStart

\* The picker failed while a config file with content was on disk.
C6_Witness ==
    \E p \in Inv :
        /\ inv[p].outcome = "failed"
        /\ inv[p].pc = "exit1"
        /\ inv[p].fileAtStart.exists

SchemaOK(config) ==
    \/ config.kind = "none"
    \/ /\ config.kind = "object"
       /\ config.terminal \in VALID_TERMINALS \cup {NoKey}
       /\ config.pkind \in {"absent", "dict"}
       /\ \A k \in DOMAIN config.pmap : config.pmap[k] # <<>>

\* C8 (config schema on load): load_config raises nothing, and the config it
\* returns is absent or satisfies the schema: terminal absent or supported,
\* projects absent or a mapping whose values are non-empty strings.
C8_Schema ==
    \A p \in Inv :
        inv[p].pc # "idle" =>
            /\ inv[p].err # "TypeError"
            /\ SchemaOK(inv[p].given)

\* The document a file holds, read without the checks of load_config
RawDoc(f) ==
    IF f.exists /\ JsonLoad(f.data).ok /\ JsonLoad(f.data).doc.kind = "object"
    THEN JsonLoad(f.data).doc
    ELSE None

\* Every entry of before is in after, and after differs from before by at
\* most one entry, added under a name that had none.
OnlyAdds(before, after) ==
    LET b == RawDoc(before)
        a == RawDoc(after)
    IN  /\ b.terminal # NoKey => a.terminal = b.terminal
        /\ \A k \in DOMAIN b.pmap : k \in DOMAIN a.pmap /\ a.pmap[k] = b.pmap[k]
        /\ after # before =>
              /\ a.terminal = b.terminal
              /\ \E n \in (DOMAIN a.pmap) \ (DOMAIN b.pmap) :
                    DOMAIN a.pmap = DOMAIN b.pmap \cup {n}

\* C9 (entries are never deleted): whatever the config file held before an
\* invocation, every entry and the terminal key are still there after it, and
\* the only change is one added entry.
C9_NeverDeleted ==
    \A p \in Inv :
        inv[p].pc \in {"saved", "launched", "exit1", "crashed"} =>
            OnlyAdds(inv[p].fileAtStart, files[CONFIG_PATH])

\* The complete document one save writes
Document(config) == File(JsonDump(config) \o <<Newline>>)

\* C10 (no torn config): under every interleaving, the config file holds its
\* initial content or the complete document of one save that has replaced it.
C10_NoTornConfig ==
    \/ files[CONFIG_PATH] = file0
    \/ \E p \in Inv : Saved(p) /\ files[CONFIG_PATH] = Document(inv[p].newcfg)

\* Two invocations both saved; the file is the document of one of them and
\* the mapping of the other is missing from it.
C10_Witness ==
    \E p, q \in Inv :
        /\ p # q
        /\ Saved(p) /\ Saved(q)
        /\ files[CONFIG_PATH] = Document(inv[q].newcfg)
        /\ Project(p) \notin DOMAIN ProjectsOf(inv[q].newcfg)

============================================================================
